---------------------------- MODULE Spec2Model ----------------------------
(***************************************************************************)
(* Model of src/assets/js/pattern.js: the App.Pattern singleton that holds *)
(* the on/off status of every step of every channel, and the seven event   *)
(* handlers it subscribes on App.eventDispatcher.                          *)
(*                                                                         *)
(* JavaScript arrays are 0-based: currentStep, stepIndex and the values of *)
(* channelIndex are kept 0-based as in the source, and are shifted by one  *)
(* where a TLA+ sequence is indexed.                                       *)
(***************************************************************************)
EXTENDS Integers, Sequences, FiniteSets, TLC

\* ------------------------------------------------------------------------
\* Bounds of the model
\* ------------------------------------------------------------------------

\* channel ids published with 'channel.added' / 'channel.removed' are 1..MaxChannelId
MaxChannelId == 2

\* 'steps-per-channel.update' payloads are 1, MaxStepCount and the default;
\* 'tempo.step' is only published while the cursor is below MaxStepCount
MaxStepCount == 2

\* 'ui.step.toggled' only turns a step on while fewer than MaxOn steps are on
MaxOn == 2

\* 'ui.step.toggled' step indexes are -1..MaxStepIndex
MaxStepIndex == 1

\* ------------------------------------------------------------------------
\* Program constants
\* ------------------------------------------------------------------------

\* stepsPerChannel = 16
DefaultStepsPerChannel == 16

\* currentStep = -1
NotStarted == -1

\* the value of `instance` before the first construction
Undefined == 0

\* the object the first completed construction initialises
FirstObject == 1

\* any object allocated by `new` after the instance exists
LaterObject == 2

VARIABLES
    patterns,         \* sequence of [channelId, steps]
    channelIndex,     \* property key -> 0-based position in patterns
    currentStep,
    stepsPerChannel,
    instance,         \* closure variable `instance`
    App_Pattern,      \* which function App.Pattern is bound to
    App_pattern,      \* the property App.pattern
    subscriptions,    \* event name -> sequence of subscribed handlers
    published,        \* events triggered by the last handler invocation
    result,           \* completion of the last construction call
    lastCall,         \* the last call made
    sinceReset,       \* the 'ui.transport.reset' last handled, until the call after the next 'tempo.step'
    beforeShrink,     \* patterns and width before the shrink that was just made
    beforeRemove      \* the removed id and the other records before the removal that was just made

vars == <<patterns, channelIndex, currentStep, stepsPerChannel, instance,
          App_Pattern, App_pattern, subscriptions, published, result,
          lastCall, sinceReset, beforeShrink, beforeRemove>>

ChannelIds == 1..MaxChannelId

StepCounts == {1, MaxStepCount, DefaultStepsPerChannel}

StepIndexes == (-1)..MaxStepIndex

\* values passed as `on`: booleans and numbers
OnValues == {<<"boolean", 1>>, <<"number", 0>>}

EventNames == {"steps-per-channel.update", "channel.added", "channel.removed",
               "ui.step.toggled", "ui.pattern.clear", "ui.transport.reset",
               "tempo.step"}

\* ------------------------------------------------------------------------
\* JavaScript helpers
\* ------------------------------------------------------------------------

\* property key of a numeric channel id: channelIndex[channelId]
PropertyKey(channelId) == ToString(channelId)

\* !!on
ToBoolean(on) == on[2] # 0

\* array[k] is not undefined
Defined(array, k) == k \in 0..(Len(array) - 1)

\* truthiness of steps[k]; undefined past the end
Truthy(steps, k) == Defined(steps, k) /\ steps[k + 1]

\* array.slice(0, end) for end >= 0
Slice(array, end) == SubSeq(array, 1, IF end < Len(array) THEN end ELSE Len(array))

\* array.splice(pos, 1) with 0-based pos
Splice(array, pos) == SubSeq(array, 1, pos) \o SubSeq(array, pos + 2, Len(array))

\* n pushes of false onto array
RECURSIVE PushFalse(_, _)
PushFalse(array, n) == IF n <= 0 THEN array ELSE PushFalse(Append(array, FALSE), n - 1)

\* the part of the closure the handlers read and write
Store == [patterns |-> patterns, channelIndex |-> channelIndex,
          currentStep |-> currentStep, stepsPerChannel |-> stepsPerChannel,
          published |-> <<>>]

\* ------------------------------------------------------------------------
\* Private methods of App.Pattern, as functions of the store
\* ------------------------------------------------------------------------

RECURSIVE rehashLoop(_, _, _)
rehashLoop(pats, i, index) ==
    IF i >= Len(pats) THEN index
    ELSE LET key == PropertyKey(pats[i + 1].channelId)
         IN rehashLoop(pats, i + 1,
                [k \in (DOMAIN index) \cup {key} |-> IF k = key THEN i ELSE index[k]])

\* the index is refilled without being emptied first (channelIndex = {} dropped)
rehashChannelIndex_keepOld(s) ==
    [s EXCEPT !.channelIndex = rehashLoop(s.patterns, 0, s.channelIndex)]

rehashChannelIndex(s) == [s EXCEPT !.channelIndex = rehashLoop(s.patterns, 0, <<>>)]

\* growing replaces the steps by fresh ones instead of pushing onto them
correctStepCount_growClears(s, desiredStepCount) ==
    IF s.stepsPerChannel = desiredStepCount THEN s
    ELSE IF desiredStepCount > s.stepsPerChannel
    THEN [s EXCEPT
            !.patterns = [j \in DOMAIN s.patterns |->
                [s.patterns[j] EXCEPT !.steps = PushFalse(<<>>, desiredStepCount)]],
            !.stepsPerChannel = desiredStepCount]
    ELSE [s EXCEPT
            !.patterns = [j \in DOMAIN s.patterns |->
                [s.patterns[j] EXCEPT !.steps = Slice(@, desiredStepCount)]],
            !.stepsPerChannel = desiredStepCount]

\* shrinking drops the result of slice instead of assigning it
correctStepCount_sliceDropped(s, desiredStepCount) ==
    IF s.stepsPerChannel = desiredStepCount THEN s
    ELSE IF desiredStepCount > s.stepsPerChannel
    THEN [s EXCEPT
            !.patterns = [j \in DOMAIN s.patterns |->
                [s.patterns[j] EXCEPT !.steps =
                    PushFalse(@, desiredStepCount - s.stepsPerChannel)]],
            !.stepsPerChannel = desiredStepCount]
    ELSE [s EXCEPT !.stepsPerChannel = desiredStepCount]

\* a shrink also pulls the cursor back inside the new width
correctStepCount_clampCursor(s, desiredStepCount) ==
    IF s.stepsPerChannel = desiredStepCount THEN s
    ELSE IF desiredStepCount > s.stepsPerChannel
    THEN [s EXCEPT
            !.patterns = [j \in DOMAIN s.patterns |->
                [s.patterns[j] EXCEPT !.steps =
                    PushFalse(@, desiredStepCount - s.stepsPerChannel)]],
            !.stepsPerChannel = desiredStepCount]
    ELSE [s EXCEPT
            !.patterns = [j \in DOMAIN s.patterns |->
                [s.patterns[j] EXCEPT !.steps = Slice(@, desiredStepCount)]],
            !.stepsPerChannel = desiredStepCount,
            !.currentStep = IF @ > desiredStepCount - 1 THEN desiredStepCount - 1 ELSE @]

correctStepCount(s, desiredStepCount) ==
    IF s.stepsPerChannel = desiredStepCount THEN s
    ELSE IF desiredStepCount > s.stepsPerChannel
    THEN [s EXCEPT
            !.patterns = [j \in DOMAIN s.patterns |->
                [s.patterns[j] EXCEPT !.steps =
                    PushFalse(@, desiredStepCount - s.stepsPerChannel)]],
            !.stepsPerChannel = desiredStepCount]
    ELSE [s EXCEPT
            !.patterns = [j \in DOMAIN s.patterns |->
                [s.patterns[j] EXCEPT !.steps = Slice(@, desiredStepCount)]],
            !.stepsPerChannel = desiredStepCount]

\* 1-based position of the record in patterns, 0 for `false`
getChannelById(s, channelId) ==
    IF PropertyKey(channelId) \notin DOMAIN s.channelIndex THEN 0
    ELSE IF ~Defined(s.patterns, s.channelIndex[PropertyKey(channelId)]) THEN 0
    ELSE s.channelIndex[PropertyKey(channelId)] + 1

\* the new steps are filled up to the default width, not stepsPerChannel
addChannel_defaultWidth(s, channelId) ==
    LET pos   == getChannelById(s, channelId)
        isNew == pos = 0
        steps == PushFalse(<<>>, DefaultStepsPerChannel)
    IN IF isNew
       THEN rehashChannelIndex(
                [s EXCEPT !.patterns =
                    Append(@, [channelId |-> channelId, steps |-> steps])])
       ELSE [s EXCEPT !.patterns[pos].steps = steps]

\* an existing channel is left as it is
addChannel_keepExisting(s, channelId) ==
    LET pos   == getChannelById(s, channelId)
        isNew == pos = 0
        steps == PushFalse(<<>>, s.stepsPerChannel)
    IN IF isNew
       THEN rehashChannelIndex(
                [s EXCEPT !.patterns =
                    Append(@, [channelId |-> channelId, steps |-> steps])])
       ELSE s

\* a new channel is put in front of the others instead of pushed at the end
addChannel_unshift(s, channelId) ==
    LET pos   == getChannelById(s, channelId)
        isNew == pos = 0
        steps == PushFalse(<<>>, s.stepsPerChannel)
    IN IF isNew
       THEN rehashChannelIndex(
                [s EXCEPT !.patterns =
                    <<[channelId |-> channelId, steps |-> steps]>> \o @])
       ELSE [s EXCEPT !.patterns[pos].steps = steps]

addChannel(s, channelId) ==
    LET pos   == getChannelById(s, channelId)
        isNew == pos = 0
        steps == PushFalse(<<>>, s.stepsPerChannel)
    IN IF isNew
       THEN rehashChannelIndex(
                [s EXCEPT !.patterns =
                    Append(@, [channelId |-> channelId, steps |-> steps])])
       ELSE [s EXCEPT !.patterns[pos].steps = steps]

\* the index is patched (the removed key deleted) instead of rebuilt
removeChannel_noRehash(s, channelId) ==
    IF PropertyKey(channelId) \notin DOMAIN s.channelIndex THEN s
    ELSE [s EXCEPT
            !.patterns = Splice(@, s.channelIndex[PropertyKey(channelId)]),
            !.channelIndex = [k \in (DOMAIN s.channelIndex) \ {PropertyKey(channelId)} |->
                                s.channelIndex[k]]]

\* the guard on an unknown id is missing: splice(undefined, 1) removes the
\* first record
removeChannel_noGuard(s, channelId) ==
    IF PropertyKey(channelId) \notin DOMAIN s.channelIndex
    THEN rehashChannelIndex([s EXCEPT !.patterns = Splice(@, 0)])
    ELSE rehashChannelIndex(
            [s EXCEPT !.patterns = Splice(@, s.channelIndex[PropertyKey(channelId)])])

removeChannel(s, channelId) ==
    IF PropertyKey(channelId) \notin DOMAIN s.channelIndex THEN s
    ELSE rehashChannelIndex(
            [s EXCEPT !.patterns = Splice(@, s.channelIndex[PropertyKey(channelId)])])

\* the test for an undefined step is missing: writing at or past the end
\* grows the array
stepToggled_noBoundCheck(s, channelId, stepIndex, on) ==
    LET pos == getChannelById(s, channelId)
    IN IF pos = 0 THEN s
       ELSE IF stepIndex < 0 THEN s
       ELSE IF ~Defined(s.patterns[pos].steps, stepIndex)
       THEN [s EXCEPT !.patterns[pos].steps =
                Append(PushFalse(@, stepIndex - Len(@)), ToBoolean(on))]
       ELSE [s EXCEPT !.patterns[pos].steps[stepIndex + 1] = ToBoolean(on)]

stepToggled(s, channelId, stepIndex, on) ==
    LET pos == getChannelById(s, channelId)
    IN IF pos = 0 THEN s
       ELSE IF ~Defined(s.patterns[pos].steps, stepIndex) THEN s
       ELSE [s EXCEPT !.patterns[pos].steps[stepIndex + 1] = ToBoolean(on)]

\* the flags that are on are turned off and the others turned on
clearPattern_invert(s) ==
    [s EXCEPT !.patterns = [i \in DOMAIN s.patterns |->
        [s.patterns[i] EXCEPT !.steps = [k \in DOMAIN @ |-> ~@[k]]]]]

clearPattern(s) ==
    LET emptyPattern == PushFalse(<<>>, s.stepsPerChannel)
    IN [s EXCEPT !.patterns = [i \in DOMAIN s.patterns |->
            [s.patterns[i] EXCEPT !.steps = Slice(emptyPattern, s.stepsPerChannel)]]]

\* the cursor is reset to the first step instead of the sentinel
resetCurrentStep_toZero(s) == [s EXCEPT !.currentStep = 0]

resetCurrentStep(s) == [s EXCEPT !.currentStep = -1]

\* events.trigger(name, payload) appended to the log of published events
Trigger(log, name, payload) == Append(log, [name |-> name, payload |-> payload])

\* the loop stops one record early: i < patterns.length - 1
RECURSIVE tickLoop_skipLast(_, _, _, _)
tickLoop_skipLast(pats, step, i, log) ==
    IF i >= Len(pats) - 1 THEN log
    ELSE tickLoop_skipLast(pats, step, i + 1,
            IF Truthy(pats[i + 1].steps, step)
            THEN Trigger(log, "channel.triggered.channel-" \o ToString(pats[i + 1].channelId), <<>>)
            ELSE log)

RECURSIVE tickLoop(_, _, _, _)
tickLoop(pats, step, i, log) ==
    IF i >= Len(pats) THEN log
    ELSE tickLoop(pats, step, i + 1,
            IF Truthy(pats[i + 1].steps, step)
            THEN Trigger(log, "channel.triggered.channel-" \o ToString(pats[i + 1].channelId), <<>>)
            ELSE log)

\* the wraparound test compares with stepsPerChannel, one step too late
tick_wrapLate(s) ==
    LET incremented == s.currentStep + 1
        step == IF incremented > s.stepsPerChannel THEN 0 ELSE incremented
    IN [s EXCEPT !.currentStep = step,
                 !.published = tickLoop(s.patterns, step, 0,
                                        Trigger(s.published, "step.tick", <<step>>))]

\* the wraparound test uses >=, one step too early
tick_wrapEarly(s) ==
    LET incremented == s.currentStep + 1
        step == IF incremented >= (s.stepsPerChannel - 1) THEN 0 ELSE incremented
    IN [s EXCEPT !.currentStep = step,
                 !.published = tickLoop(s.patterns, step, 0,
                                        Trigger(s.published, "step.tick", <<step>>))]

\* the channels are checked at the cursor the tick started from
tick_oldStep(s) ==
    LET incremented == s.currentStep + 1
        step == IF incremented > (s.stepsPerChannel - 1) THEN 0 ELSE incremented
    IN [s EXCEPT !.currentStep = step,
                 !.published = tickLoop(s.patterns, s.currentStep, 0,
                                        Trigger(s.published, "step.tick", <<step>>))]

\* the cursor wraps only when it is exactly one past the last step
tick_wrapOnEqual(s) ==
    LET incremented == s.currentStep + 1
        step == IF incremented = s.stepsPerChannel THEN 0 ELSE incremented
    IN [s EXCEPT !.currentStep = step,
                 !.published = tickLoop(s.patterns, step, 0,
                                        Trigger(s.published, "step.tick", <<step>>))]

tick(s) ==
    LET incremented == s.currentStep + 1
        step == IF incremented > (s.stepsPerChannel - 1) THEN 0 ELSE incremented
    IN [s EXCEPT !.currentStep = step,
                 !.published = tickLoop(s.patterns, step, 0,
                                        Trigger(s.published, "step.tick", <<step>>))]

\* ------------------------------------------------------------------------
\* Event dispatch
\* ------------------------------------------------------------------------

Handle(handler, s, args) ==
    CASE handler = "correctStepCount" -> correctStepCount(s, args[1])
      [] handler = "addChannel"       -> addChannel(s, args[1])
      [] handler = "removeChannel"    -> removeChannel(s, args[1])
      [] handler = "stepToggled"      -> stepToggled(s, args[1], args[2], args[3])
      [] handler = "clearPattern"     -> clearPattern(s)
      [] handler = "resetCurrentStep" -> resetCurrentStep(s)
      [] handler = "tick"             -> tick(s)

\* every subscribed handler runs to completion, in subscription order
RECURSIVE Dispatch(_, _, _)
Dispatch(handlers, s, args) ==
    IF handlers = <<>> THEN s
    ELSE Dispatch(Tail(handlers), Handle(Head(handlers), s, args), args)

Subscribe(subs, name, handler) == [subs EXCEPT ![name] = Append(@, handler)]

\* the seven events.subscribe calls of the initialization
SubscribeAll(subs) ==
    Subscribe(Subscribe(Subscribe(Subscribe(Subscribe(Subscribe(Subscribe(subs,
        "steps-per-channel.update", "correctStepCount"),
        "channel.added", "addChannel"),
        "channel.removed", "removeChannel"),
        "ui.step.toggled", "stepToggled"),
        "ui.pattern.clear", "clearPattern"),
        "ui.transport.reset", "resetCurrentStep"),
        "tempo.step", "tick")

\* record of a call: the event or "construct", the channel id or step count it
\* carried, and the width (resize) or cursor (tick) it started from
Call(op, args, before) == [op |-> op, args |-> args, before |-> before]

\* a reset is pending: handled, and no 'tempo.step' handled since
Pending == sinceReset # <<>> /\ ~sinceReset[1].landed

\* sinceReset after a call that is neither a reset nor a tick
KeepPending(resizes) ==
    IF Pending
    THEN <<[sinceReset[1] EXCEPT !.resized = @ \/ resizes]>>
    ELSE <<>>

\* ------------------------------------------------------------------------
\* Initial state: the script has run, nothing has been constructed
\* ------------------------------------------------------------------------

Init ==
    /\ patterns = <<>>
    /\ channelIndex = <<>>
    /\ currentStep = NotStarted
    /\ stepsPerChannel = DefaultStepsPerChannel
    /\ instance = Undefined
    /\ App_Pattern = "original"
    /\ App_pattern = Undefined
    /\ subscriptions = [e \in EventNames |-> <<>>]
    /\ published = <<>>
    /\ result = [kind |-> "none", object |-> Undefined]
    /\ lastCall = Call("load", <<>>, <<>>)
    /\ sinceReset = <<>>
    /\ beforeShrink = <<>>
    /\ beforeRemove = <<>>

\* ------------------------------------------------------------------------
\* Construction calls
\* ------------------------------------------------------------------------

\* the overriding constructor: App.pattern = instance; return instance
Overriding(c) == [c EXCEPT !.App_pattern = c.instance,
                           !.result = [kind |-> "object", object |-> c.instance]]

\* body of the original constructor, from the initialization on, with `this`
Initialization(c, this) ==
    [c EXCEPT !.instance = this,
              !.App_pattern = this,
              !.subscriptions = SubscribeAll(c.subscriptions),
              !.App_Pattern = "overriding",
              !.result = [kind |-> "object", object |-> this]]

\* new App.Pattern(), whatever App.Pattern is bound to
NewAppPattern(c) ==
    IF c.App_Pattern = "overriding" THEN Overriding(c)
    ELSE Initialization(c, IF c.instance = Undefined THEN FirstObject ELSE LaterObject)

\* the original constructor called with `new`, as a method of an object, or
\* as a plain function (this is undefined in strict mode)
Original(c, how) ==
    IF how = "bare" THEN [c EXCEPT !.result = [kind |-> "TypeError", object |-> Undefined]]
    ELSE IF how = "method" THEN NewAppPattern(c)
    ELSE IF c.App_Pattern # "original" THEN NewAppPattern(c)
    ELSE Initialization(c, IF c.instance = Undefined THEN FirstObject ELSE LaterObject)

Construction == [instance |-> instance, App_Pattern |-> App_Pattern,
                 App_pattern |-> App_pattern, subscriptions |-> subscriptions,
                 result |-> result]

ConstructWays == {<<"App.Pattern", "new">>, <<"App.Pattern", "method">>,
                  <<"retained", "new">>, <<"retained", "method">>,
                  <<"retained", "bare">>}

Construct(via, how) ==
    LET c == IF via = "App.Pattern" /\ App_Pattern = "overriding"
             THEN Overriding(Construction)
             ELSE Original(Construction, how)
    IN /\ instance' = c.instance
       /\ App_Pattern' = c.App_Pattern
       /\ App_pattern' = c.App_pattern
       /\ subscriptions' = c.subscriptions
       /\ result' = c.result
       /\ lastCall' = Call("construct", <<>>, <<>>)
       /\ published' = <<>>
       /\ beforeShrink' = <<>>
       /\ beforeRemove' = <<>>
       /\ sinceReset' = KeepPending(FALSE)
       /\ UNCHANGED <<patterns, channelIndex, currentStep, stepsPerChannel>>

\* ------------------------------------------------------------------------
\* Events published by the collaborators
\* ------------------------------------------------------------------------

Publish(name, args, call) ==
    LET s == Dispatch(subscriptions[name], Store, args)
    IN /\ subscriptions[name] # <<>>
       /\ patterns' = s.patterns
       /\ channelIndex' = s.channelIndex
       /\ currentStep' = s.currentStep
       /\ stepsPerChannel' = s.stepsPerChannel
       /\ published' = s.published
       /\ lastCall' = call
       /\ result' = [kind |-> "none", object |-> Undefined]
       /\ UNCHANGED <<instance, App_Pattern, App_pattern, subscriptions>>

StepsPerChannelUpdate(desiredStepCount) ==
    /\ Publish("steps-per-channel.update", <<desiredStepCount>>,
               Call("steps-per-channel.update", <<desiredStepCount>>, <<stepsPerChannel>>))
    /\ beforeShrink' =
         IF desiredStepCount < stepsPerChannel
         THEN <<[patterns |-> patterns, stepsPerChannel |-> stepsPerChannel]>>
         ELSE IF /\ beforeShrink # <<>>
                 /\ lastCall.op = "steps-per-channel.update"
                 /\ lastCall.before[1] > stepsPerChannel
                 /\ desiredStepCount = beforeShrink[1].stepsPerChannel
         THEN beforeShrink
         ELSE <<>>
    /\ beforeRemove' = <<>>
    /\ sinceReset' = KeepPending(desiredStepCount # stepsPerChannel)

ChannelAdded(channelId) ==
    /\ Publish("channel.added", <<channelId>>, Call("channel.added", <<channelId>>, <<>>))
    /\ beforeShrink' = <<>>
    /\ beforeRemove' = IF lastCall.op = "channel.removed" THEN beforeRemove ELSE <<>>
    /\ sinceReset' = KeepPending(FALSE)

ChannelRemoved(channelId) ==
    /\ Publish("channel.removed", <<channelId>>, Call("channel.removed", <<channelId>>, <<>>))
    /\ beforeShrink' = <<>>
    /\ beforeRemove' =
         IF \E p \in DOMAIN patterns : patterns[p].channelId = channelId
         THEN <<[channelId |-> channelId,
                 others |-> SelectSeq(patterns, LAMBDA ch : ch.channelId # channelId)]>>
         ELSE <<>>
    /\ sinceReset' = KeepPending(FALSE)

\* number of steps that are on
OnCount ==
    Cardinality({pk \in UNION {{<<p, k>> : k \in DOMAIN patterns[p].steps} : p \in DOMAIN patterns} :
                    patterns[pk[1]].steps[pk[2]]})

UiStepToggled(channelId, stepIndex, on) ==
    /\ ~ToBoolean(on) \/ OnCount < MaxOn
    /\ Publish("ui.step.toggled", <<channelId, stepIndex, on>>, Call("ui.step.toggled", <<>>, <<>>))
    /\ beforeShrink' = <<>>
    /\ beforeRemove' = <<>>
    /\ sinceReset' = KeepPending(FALSE)

UiPatternClear ==
    /\ Publish("ui.pattern.clear", <<>>, Call("ui.pattern.clear", <<>>, <<>>))
    /\ beforeShrink' = <<>>
    /\ beforeRemove' = <<>>
    /\ sinceReset' = KeepPending(FALSE)

UiTransportReset ==
    /\ Publish("ui.transport.reset", <<>>, Call("ui.transport.reset", <<>>, <<>>))
    /\ beforeShrink' = <<>>
    /\ beforeRemove' = <<>>
    /\ sinceReset' = <<[resized |-> FALSE, landed |-> FALSE]>>

TempoStep ==
    /\ currentStep < MaxStepCount
    /\ Publish("tempo.step", <<>>, Call("tempo.step", <<>>, <<currentStep>>))
    /\ beforeShrink' = <<>>
    /\ beforeRemove' = <<>>
    /\ sinceReset' = IF Pending THEN <<[sinceReset[1] EXCEPT !.landed = TRUE]>> ELSE <<>>

Next ==
    \/ \E w \in ConstructWays : Construct(w[1], w[2])
    \/ \E d \in StepCounts : StepsPerChannelUpdate(d)
    \/ \E id \in ChannelIds : ChannelAdded(id)
    \/ \E id \in ChannelIds : ChannelRemoved(id)
    \/ \E id \in ChannelIds, k \in StepIndexes, on \in OnValues : UiStepToggled(id, k, on)
    \/ UiPatternClear
    \/ UiTransportReset
    \/ TempoStep

Spec == Init /\ [][Next]_vars

\* ------------------------------------------------------------------------
\* The channel registry with one more channel id: channels are added,
\* removed and toggled at the default width
\* ------------------------------------------------------------------------

RegistryIds == 1..(MaxChannelId + 1)

RegistryNext ==
    \/ Construct("App.Pattern", "new")
    \/ \E id \in RegistryIds : ChannelAdded(id)
    \/ \E id \in RegistryIds : ChannelRemoved(id)
    \/ \E id \in RegistryIds, k \in StepIndexes, on \in OnValues : UiStepToggled(id, k, on)

RegistrySpec == Init /\ [][RegistryNext]_vars

\* ------------------------------------------------------------------------
\* Playback: 'tempo.step' keeps arriving; the width is set before the first
\* tick and 'ui.transport.reset' is not published
\* ------------------------------------------------------------------------

\* a 'tempo.step' at a width whose steps the model can walk
Playing == stepsPerChannel <= MaxStepCount /\ TempoStep

PlaybackNext ==
    \/ Construct("App.Pattern", "new")
    \/ \E d \in StepCounts : currentStep = NotStarted /\ StepsPerChannelUpdate(d)
    \/ \E id \in ChannelIds : ChannelAdded(id)
    \/ \E id \in ChannelIds : ChannelRemoved(id)
    \/ \E id \in ChannelIds, k \in StepIndexes, on \in OnValues : UiStepToggled(id, k, on)
    \/ UiPatternClear
    \/ Playing

PlaybackSpec == Init /\ [][PlaybackNext]_vars /\ WF_vars(Playing)

\* ------------------------------------------------------------------------
\* Reentrant ticks: a subscriber of 'step.tick' or of a
\* 'channel.triggered.channel-<id>' notification publishes a consumed event
\* from inside events.trigger, so the handler of that event runs before tick
\* goes on
\* ------------------------------------------------------------------------

\* the events a subscriber may publish, with their arguments; a subscriber
\* toggles the first step
Reactions ==
    {<<"channel.added", <<id>>>> : id \in ChannelIds}
    \cup {<<"channel.removed", <<id>>>> : id \in ChannelIds}
    \cup {<<"steps-per-channel.update", <<d>>>> : d \in StepCounts}
    \cup {<<"ui.step.toggled", <<id, 0, on>>>> : id \in ChannelIds, on \in OnValues}
    \cup {<<"ui.pattern.clear", <<>>>>, <<"ui.transport.reset", <<>>>>, <<"tempo.step", <<>>>>}

\* a subscriber reacts to one notification of a tick: number 0 is 'step.tick',
\* number n the n-th 'channel.triggered' notification
Subscribers ==
    {[at |-> at, name |-> r[1], args |-> r[2]] : at \in 0..MaxChannelId, r \in Reactions}

\* events.trigger(name, payload) with the subscriber listening: the
\* notification is published and, if it is the one the subscriber reacts to,
\* the handlers of the event it publishes run to completion
TriggerTo(subscriber, s, note, name, payload) ==
    LET notified == [s EXCEPT !.published = Trigger(@, name, payload)]
    IN IF note = subscriber.at
       THEN Dispatch(subscriptions[subscriber.name], notified, subscriber.args)
       ELSE notified

\* an uncaught TypeError: the read of `steps` of a record that is not there
Throw(s) == [s EXCEPT !.published = Trigger(@, "TypeError", <<>>)]

Thrown(log) == \E e \in DOMAIN log : log[e].name = "TypeError"

\* the loop runs up to the length patterns had when it started
RECURSIVE cachedLengthLoop(_, _, _, _, _)
cachedLengthLoop(subscriber, s, i, length, note) ==
    IF i >= length THEN s
    ELSE IF ~Defined(s.patterns, i) THEN Throw(s)
    ELSE IF Truthy(s.patterns[i + 1].steps, s.currentStep)
    THEN cachedLengthLoop(subscriber,
            TriggerTo(subscriber, s, note,
                "channel.triggered.channel-" \o ToString(s.patterns[i + 1].channelId), <<>>),
            i + 1, length, note + 1)
    ELSE cachedLengthLoop(subscriber, s, i + 1, length, note)

\* the loop of tick: patterns.length, patterns[i] and currentStep are read
\* anew in every iteration
RECURSIVE tickLoopReentered(_, _, _, _)
tickLoopReentered(subscriber, s, i, note) ==
    IF i >= Len(s.patterns) THEN s
    ELSE IF Truthy(s.patterns[i + 1].steps, s.currentStep)
    THEN tickLoopReentered(subscriber,
            TriggerTo(subscriber, s, note,
                "channel.triggered.channel-" \o ToString(s.patterns[i + 1].channelId), <<>>),
            i + 1, note + 1)
    ELSE tickLoopReentered(subscriber, s, i + 1, note)

\* patterns.length is read once, before the loop
tickReentered_cachedLength(subscriber, s) ==
    LET incremented == s.currentStep + 1
        step == IF incremented > (s.stepsPerChannel - 1) THEN 0 ELSE incremented
        ticked == TriggerTo(subscriber, [s EXCEPT !.currentStep = step], 0, "step.tick", <<step>>)
    IN cachedLengthLoop(subscriber, ticked, 0, Len(ticked.patterns), 1)

tickReentered(subscriber, s) ==
    LET incremented == s.currentStep + 1
        step == IF incremented > (s.stepsPerChannel - 1) THEN 0 ELSE incremented
    IN tickLoopReentered(subscriber,
            TriggerTo(subscriber, [s EXCEPT !.currentStep = step], 0, "step.tick", <<step>>),
            0, 1)

\* 'tempo.step' published while the subscriber is listening
TempoStepReentered(subscriber) ==
    LET s == tickReentered(subscriber, Store)
    IN /\ subscriptions["tempo.step"] # <<>>
       /\ currentStep < MaxStepCount
       /\ patterns' = s.patterns
       /\ channelIndex' = s.channelIndex
       /\ currentStep' = s.currentStep
       /\ stepsPerChannel' = s.stepsPerChannel
       /\ published' = s.published
       /\ lastCall' = Call("tempo.step", <<>>, <<currentStep>>)
       /\ result' = [kind |-> IF Thrown(s.published) THEN "TypeError" ELSE "none",
                     object |-> Undefined]
       /\ beforeShrink' = <<>>
       /\ beforeRemove' = <<>>
       /\ sinceReset' = <<>>
       /\ UNCHANGED <<instance, App_Pattern, App_pattern, subscriptions>>

ReentrantNext ==
    \/ Construct("App.Pattern", "new")
    \/ \E id \in ChannelIds : ChannelAdded(id)
    \/ \E id \in ChannelIds, k \in {0, MaxStepIndex}, on \in OnValues : UiStepToggled(id, k, on)
    \/ \E subscriber \in Subscribers : TempoStepReentered(subscriber)

ReentrantSpec == Init /\ [][ReentrantNext]_vars

\* ------------------------------------------------------------------------
\* Properties
\* ------------------------------------------------------------------------

StepTick(step) == [name |-> "step.tick", payload |-> <<step>>]

ChannelTriggered(channelId) ==
    [name |-> "channel.triggered.channel-" \o ToString(channelId), payload |-> <<>>]

AllFalse(steps, n) == Len(steps) = n /\ \A k \in 1..n : steps[k] = FALSE

SameChannelIds(before, after) ==
    /\ Len(after) = Len(before)
    /\ \A p \in DOMAIN before : after[p].channelId = before[p].channelId

\* C1: after any sequence of handlers every channel record has a steps
\* sequence whose length is exactly the current stepsPerChannel.
C1_StepsLength ==
    \A p \in DOMAIN patterns : Len(patterns[p].steps) = stepsPerChannel

\* a channel was added at a width other than the default, next to a channel
\* that has an on step
C1_Witness ==
    /\ Len(patterns) = 2
    /\ lastCall.op = "channel.added"
    /\ stepsPerChannel # DefaultStepsPerChannel
    /\ \E p \in DOMAIN patterns : patterns[p].steps[1] = TRUE

\* C2: channelIndex is exactly the map from each registered channelId to its
\* position in patterns, it has no entry for an id that is not in patterns,
\* and no two positions of patterns hold the same channelId.
C2_ChannelIndex ==
    /\ \A p \in DOMAIN patterns :
          /\ PropertyKey(patterns[p].channelId) \in DOMAIN channelIndex
          /\ channelIndex[PropertyKey(patterns[p].channelId)] = p - 1
    /\ \A k \in DOMAIN channelIndex :
          \E p \in DOMAIN patterns : PropertyKey(patterns[p].channelId) = k
    /\ \A p, q \in DOMAIN patterns :
          patterns[p].channelId = patterns[q].channelId => p = q

\* channel 1 was removed and channel 2 is indexed at the first position
C2_Witness ==
    /\ lastCall.op = "channel.removed"
    /\ Len(patterns) = 1
    /\ lastCall.args[1] < patterns[1].channelId
    /\ channelIndex[PropertyKey(patterns[1].channelId)] = 0

C4_Singleton ==
    [][ \A w \in ConstructWays : Construct(w[1], w[2]) =>
          IF instance = Undefined
          THEN w[2] # "bare" =>
                  /\ instance' # Undefined
                  /\ result' = [kind |-> "object", object |-> instance']
                  /\ \A e \in EventNames : Len(subscriptions'[e]) = 1
          ELSE /\ instance' = instance
               /\ result' = [kind |-> "object", object |-> instance]
               /\ UNCHANGED <<patterns, channelIndex, stepsPerChannel,
                              currentStep, subscriptions>> ]_vars

\* C5: a tick publishes exactly one 'step tick' carrying the new currentStep,
\* followed by one 'channel triggered' for each channel whose
\* steps[currentStep] is true and none for the others, in patterns order.
C5_TickEvents ==
    lastCall.op = "tempo.step" =>
        LET active == SelectSeq(patterns,
                        LAMBDA ch : currentStep + 1 \in DOMAIN ch.steps
                                    /\ ch.steps[currentStep + 1] = TRUE)
        IN /\ Len(published) = 1 + Len(active)
           /\ published[1] = StepTick(currentStep)
           /\ \A k \in 1..Len(active) :
                 published[k + 1] = ChannelTriggered(active[k].channelId)

\* two channels stored against id order, both on at the cursor, and a third
\* flag off: the triggers come in patterns order
C5_Witness ==
    /\ lastCall.op = "tempo.step"
    /\ Len(patterns) = 2
    /\ patterns[1].channelId > patterns[2].channelId
    /\ currentStep = 1
    /\ patterns[1].steps[2] /\ patterns[2].steps[2] /\ ~patterns[2].steps[1]
    /\ published = <<StepTick(1), ChannelTriggered(patterns[1].channelId),
                     ChannelTriggered(patterns[2].channelId)>>

\* C6: from cursor c at width n one tick sets currentStep to c+1 when
\* c+1 <= n-1 and to 0 otherwise, and the 'step tick' payload is that value.
C6_TickAdvance ==
    lastCall.op = "tempo.step" =>
        LET c == lastCall.before[1]
            n == stepsPerChannel
            landed == IF c + 1 <= n - 1 THEN c + 1 ELSE 0
        IN /\ currentStep = landed
           /\ published # <<>>
           /\ published[1].name = "step.tick"
           /\ published[1].payload = <<landed>>

\* a tick taken at the last step of the grid wraps to 0
C6_Witness ==
    /\ lastCall.op = "tempo.step"
    /\ stepsPerChannel > 1
    /\ lastCall.before[1] = stepsPerChannel - 1
    /\ currentStep = 0
    /\ published[1] = StepTick(0)

\* C7: the first tick after a resetCursor, with any non-tick handlers in
\* between, lands on currentStep = 0 and publishes 'step tick' with payload 0.
C7_ResetThenTick ==
    (sinceReset # <<>> /\ sinceReset[1].landed) =>
        /\ currentStep = 0
        /\ published # <<>>
        /\ published[1] = StepTick(0)

\* a resize came between the reset and the tick
C7_Witness ==
    /\ sinceReset # <<>>
    /\ sinceReset[1].landed
    /\ sinceReset[1].resized
    /\ Len(patterns) = 2
    /\ lastCall.op = "tempo.step"
    /\ currentStep = 0

\* C8: setStepsPerChannel(d) with d above the current width n keeps, for
\* every channel, the flags at 0..n-1, sets the flags at n..d-1 to false, and
\* sets stepsPerChannel to d.
C8_GrowPreserves ==
    [][ \A d \in StepCounts :
          ( /\ lastCall'.op = "steps-per-channel.update"
            /\ lastCall'.args = <<d>>
            /\ d > stepsPerChannel )
          => /\ stepsPerChannel' = d
             /\ SameChannelIds(patterns, patterns')
             /\ \A p \in DOMAIN patterns :
                   /\ Len(patterns'[p].steps) = d
                   /\ \A k \in 1..d :
                         patterns'[p].steps[k] =
                            IF k <= stepsPerChannel THEN patterns[p].steps[k] ELSE FALSE ]_vars

\* the grid has grown under a channel that has an on flag
C8_Witness ==
    /\ lastCall.op = "steps-per-channel.update"
    /\ lastCall.before[1] < stepsPerChannel
    /\ Len(patterns) = 2
    /\ \E p \in DOMAIN patterns :
          /\ Len(patterns[p].steps) = stepsPerChannel
          /\ patterns[p].steps[1] = TRUE
          /\ patterns[p].steps[stepsPerChannel] = FALSE

\* the width has been shrunk and then set back by the next call
Restored ==
    /\ lastCall.op = "steps-per-channel.update"
    /\ beforeShrink # <<>>
    /\ stepsPerChannel = beforeShrink[1].stepsPerChannel
    /\ lastCall.before[1] < stepsPerChannel

\* C9: setStepsPerChannel(m) with m < n followed by setStepsPerChannel(n)
\* yields, for every channel, the original flags at 0..m-1 and false at
\* every index m..n-1.
C9_ShrinkIsLossy ==
    Restored =>
        LET m == lastCall.before[1]
            n == beforeShrink[1].stepsPerChannel
            original == beforeShrink[1].patterns
        IN /\ SameChannelIds(original, patterns)
           /\ \A p \in DOMAIN original :
                 /\ Len(patterns[p].steps) = n
                 /\ \A k \in 1..n :
                       patterns[p].steps[k] =
                          IF k <= m THEN original[p].steps[k] ELSE FALSE

\* an on flag in the tail was lost while an on flag in the head was kept
C9_Witness ==
    /\ Restored
    /\ \E p \in DOMAIN patterns :
          /\ beforeShrink[1].patterns[p].steps[1] = TRUE
          /\ beforeShrink[1].patterns[p].steps[2] = TRUE
          /\ lastCall.before[1] = 1
          /\ patterns[p].steps[1] = TRUE
          /\ patterns[p].steps[2] = FALSE

\* C10: addChannel(id) for a registered id resets that channel's steps to
\* all-false of the current width, keeps it at its position without a second
\* record, and leaves the other channels' steps, stepsPerChannel and
\* currentStep unchanged.
C10_ReAddResets ==
    [][ \A id \in ChannelIds :
          ( /\ lastCall'.op = "channel.added"
            /\ lastCall'.args = <<id>>
            /\ \E p \in DOMAIN patterns : patterns[p].channelId = id )
          => /\ SameChannelIds(patterns, patterns')
             /\ \A p \in DOMAIN patterns :
                   IF patterns[p].channelId = id
                   THEN AllFalse(patterns'[p].steps, stepsPerChannel)
                   ELSE patterns'[p].steps = patterns[p].steps
             /\ stepsPerChannel' = stepsPerChannel
             /\ currentStep' = currentStep ]_vars

\* the first of two channels was added again (a new one would be last) and
\* is all-false while the other keeps an on flag
C10_Witness ==
    /\ lastCall.op = "channel.added"
    /\ Len(patterns) = 2
    /\ patterns[1].channelId = lastCall.args[1]
    /\ AllFalse(patterns[1].steps, stepsPerChannel)
    /\ patterns[2].steps[1] = TRUE
    /\ currentStep > 0

\* a registered channel was removed and the next call added a different id
RemovedThenAdded ==
    /\ lastCall.op = "channel.added"
    /\ beforeRemove # <<>>
    /\ lastCall.args[1] # beforeRemove[1].channelId

\* C11: after removeChannel(A) followed by addChannel(B), B # A, lookup(A)
\* is not-found, lookup(B) returns the record of B with all-false steps, and
\* every other id registered before the removal resolves to its own record
\* with its steps as they were before the removal.
C11_RemoveThenAdd ==
    RemovedThenAdded =>
        LET A == beforeRemove[1].channelId
            B == lastCall.args[1]
            others == beforeRemove[1].others
            found == getChannelById(Store, B)
        IN /\ getChannelById(Store, A) = 0
           /\ found # 0
           /\ patterns[found].channelId = B
           /\ AllFalse(patterns[found].steps, stepsPerChannel)
           /\ \A o \in DOMAIN others :
                 others[o].channelId # B =>
                    LET pos == getChannelById(Store, others[o].channelId)
                    IN pos # 0 /\ patterns[pos] = others[o]

\* the first of two channels was removed and a third id added: the channel
\* that moved to the first position keeps its on flag
C11_Witness ==
    /\ RemovedThenAdded
    /\ Len(beforeRemove[1].others) = 1
    /\ beforeRemove[1].channelId < beforeRemove[1].others[1].channelId
    /\ Len(patterns) = 2
    /\ patterns[1] = beforeRemove[1].others[1]
    /\ patterns[1].steps[1] = TRUE
    /\ patterns[2].channelId = lastCall.args[1]
    /\ channelIndex[PropertyKey(patterns[1].channelId)] = 0

Registered(channelId) == \E p \in DOMAIN patterns : patterns[p].channelId = channelId

\* C12: removeChannel(id) for an id that is not registered (a second
\* removeChannel of the same id included) leaves the whole state unchanged
\* and raises no error; for a registered id it removes exactly that one
\* record and leaves the remaining channels' records, the width and the
\* cursor unchanged.
C12_RemoveChannel ==
    [][ \A id \in ChannelIds :
          (lastCall'.op = "channel.removed" /\ lastCall'.args = <<id>>) =>
          /\ result'.kind = "none"
          /\ UNCHANGED <<stepsPerChannel, currentStep>>
          /\ IF Registered(id)
             THEN /\ Len(patterns') = Len(patterns) - 1
                  /\ patterns' = SelectSeq(patterns, LAMBDA ch : ch.channelId # id)
             ELSE UNCHANGED <<patterns, channelIndex>> ]_vars

\* an id that is not registered was removed next to a channel with an on
\* flag, which is still there
C12_Witness ==
    /\ lastCall.op = "channel.removed"
    /\ beforeRemove = <<>>
    /\ ~Registered(lastCall.args[1])
    /\ result.kind = "none"
    /\ Len(patterns) = 1
    /\ patterns[1].steps[1] = TRUE
    /\ channelIndex[PropertyKey(patterns[1].channelId)] = 0

\* C13: clearAll sets every channel's steps to all-false of length
\* stepsPerChannel and is idempotent: in the state a clearAll has produced,
\* another clearAll changes nothing.
C13_ClearAll ==
    lastCall.op = "ui.pattern.clear" =>
        /\ \A p \in DOMAIN patterns : AllFalse(patterns[p].steps, stepsPerChannel)
        /\ Dispatch(subscriptions["ui.pattern.clear"], Store, <<>>) = Store

\* two channels at a width other than the default were cleared while the
\* cursor was on a step
C13_Witness ==
    /\ lastCall.op = "ui.pattern.clear"
    /\ Len(patterns) = 2
    /\ stepsPerChannel = MaxStepCount
    /\ currentStep >= 0
    /\ \A p \in DOMAIN patterns : AllFalse(patterns[p].steps, MaxStepCount)

\* C14: from every state, setStep(channelId, stepIndex, on) leaves the whole
\* state unchanged, without an error, when channelId is not registered or
\* stepIndex is outside [0, steps.length) of that channel; otherwise it
\* changes only steps[stepIndex] of that channel, to the boolean of `on`. It
\* never changes the length of a steps sequence.
C14_SetStep ==
    \A id \in ChannelIds, k \in StepIndexes, on \in OnValues :
        LET s == Dispatch(subscriptions["ui.step.toggled"], Store, <<id, k, on>>)
        IN /\ s.channelIndex = channelIndex
           /\ s.stepsPerChannel = stepsPerChannel
           /\ s.currentStep = currentStep
           /\ s.published = <<>>
           /\ SameChannelIds(patterns, s.patterns)
           /\ \A p \in DOMAIN patterns : Len(s.patterns[p].steps) = Len(patterns[p].steps)
           /\ IF \E p \in DOMAIN patterns :
                     patterns[p].channelId = id /\ k \in 0..(Len(patterns[p].steps) - 1)
              THEN \A p \in DOMAIN patterns : \A j \in DOMAIN patterns[p].steps :
                      s.patterns[p].steps[j] =
                         IF patterns[p].channelId = id /\ j = k + 1
                         THEN ToBoolean(on)
                         ELSE patterns[p].steps[j]
              ELSE s.patterns = patterns

\* at width 1, where step index 1 is past the end, one of two channels has
\* its only step on and both keep one step
C14_Witness ==
    /\ lastCall.op = "ui.step.toggled"
    /\ stepsPerChannel = 1
    /\ Len(patterns) = 2
    /\ patterns[1].steps = <<FALSE>>
    /\ patterns[2].steps = <<TRUE>>

\* C15: currentStep is changed only by tick and resetCursor;
\* setStepsPerChannel (also when the new width is at or below the cursor),
\* addChannel, removeChannel, setStep and clearAll leave it unchanged.
C15_CursorFrame ==
    [][ /\ currentStep' # currentStep
              => lastCall'.op \in {"tempo.step", "ui.transport.reset"}
        /\ lastCall'.op \in {"steps-per-channel.update", "channel.added",
                             "channel.removed", "ui.step.toggled", "ui.pattern.clear"}
              => currentStep' = currentStep ]_vars

\* two channels were shrunk to one step while the cursor was on the second
\* step, and it still is
C15_Witness ==
    /\ lastCall.op = "steps-per-channel.update"
    /\ lastCall.before[1] > 1
    /\ stepsPerChannel = 1
    /\ currentStep = 1
    /\ Len(patterns) = 2

ChannelIdsOf(pats) == [p \in DOMAIN pats |-> pats[p].channelId]

C17_TickPayload ==
    (lastCall.op = "tempo.step" /\ stepsPerChannel >= 1) =>
        /\ \E e \in DOMAIN published : published[e].name = "step.tick"
        /\ \A e \in DOMAIN published :
              published[e].name = "step.tick" =>
                 /\ published[e].payload[1] \in 0..(stepsPerChannel - 1)
                 /\ published[e].payload[1] = currentStep
        /\ \A p \in DOMAIN patterns : Defined(patterns[p].steps, currentStep)

\* the tick started from a cursor that a shrink had left at the new width,
\* and published step 0 and the trigger of a channel that is on there
C17_Witness ==
    /\ lastCall.op = "tempo.step"
    /\ lastCall.before[1] >= stepsPerChannel
    /\ Len(patterns) = 1
    /\ patterns[1].steps[1] = TRUE
    /\ published = <<StepTick(0), ChannelTriggered(patterns[1].channelId)>>

\* the flag of channel id at step i is on
On(channelId, i) ==
    \E p \in DOMAIN patterns : patterns[p].channelId = channelId /\ Truthy(patterns[p].steps, i)

\* a tick has just published step i and triggered every channel whose flag
\* at step i is on
Played(i) ==
    /\ lastCall.op = "tempo.step"
    /\ published[1] = StepTick(i)
    /\ \A id \in ChannelIds :
          On(id, i) => \E e \in DOMAIN published : published[e] = ChannelTriggered(id)

\* C18: with stepsPerChannel = n >= 1 and ticks continuing to arrive, with
\* no setStepsPerChannel or resetCursor in between, the 'step tick' payloads
\* are consecutive modulo n, and every step index i in 0..n-1 is eventually
\* published by a tick that triggers every channel whose flag at step i is
\* on.
C18_Playback ==
    /\ [][ lastCall'.op = "tempo.step" =>
              published'[1] = StepTick((currentStep + 1) % stepsPerChannel) ]_vars
    /\ \A i \in 0..(MaxStepCount - 1) :
          (currentStep >= 0 /\ i < stepsPerChannel) ~> Played(i)

\* the second of two channels is triggered at the last step of a grid of
\* more than one step, the first stays silent
C18_Witness ==
    /\ lastCall.op = "tempo.step"
    /\ stepsPerChannel = MaxStepCount
    /\ currentStep = MaxStepCount - 1
    /\ lastCall.before[1] = MaxStepCount - 2
    /\ Len(patterns) = 2
    /\ published = <<StepTick(currentStep), ChannelTriggered(patterns[2].channelId)>>

\* C19: when a subscriber of 'step tick' or of a 'channel triggered'
\* notification publishes a consumed event in the middle of a tick, the tick
\* completes without reading a missing channel record, and when it returns
\* every steps length equals stepsPerChannel and channelIndex matches
\* patterns, with unique ids.
C19_Reentrancy ==
    lastCall.op = "tempo.step" =>
        /\ result.kind = "none"
        /\ ~Thrown(published)
        /\ \A p \in DOMAIN patterns : Len(patterns[p].steps) = stepsPerChannel
        /\ DOMAIN channelIndex = {PropertyKey(patterns[p].channelId) : p \in DOMAIN patterns}
        /\ \A p \in DOMAIN patterns :
              channelIndex[PropertyKey(patterns[p].channelId)] = p - 1

\* the first of two channels was triggered and removed from inside its
\* notification; the tick returned with the other channel at the first
\* position
C19_Witness ==
    /\ lastCall.op = "tempo.step"
    /\ Len(published) >= 2
    /\ \E id \in ChannelIds :
          /\ published[2] = ChannelTriggered(id)
          /\ PropertyKey(id) \notin DOMAIN channelIndex
    /\ Len(patterns) = 1
    /\ channelIndex[PropertyKey(patterns[1].channelId)] = 0

\* number of times event e is in the log
Times(log, e) == Cardinality({k \in DOMAIN log : log[k] = e})

\* C20: each tick publishes 'channel triggered' once per active channel, also
\* when a notification handler publishes 'channel removed' during the tick:
\* every channel that is registered when the tick returns and whose flag at
\* the tick's cursor is on has received exactly one triggered notification.
C20_OncePerActiveChannel ==
    [][ \A at \in 0..MaxChannelId, id \in ChannelIds :
          ( /\ lastCall'.op = "tempo.step"
            /\ TempoStepReentered([at |-> at, name |-> "channel.removed", args |-> <<id>>]) )
          => \A p \in DOMAIN patterns' :
                Truthy(patterns'[p].steps, currentStep')
                   => Times(published', ChannelTriggered(patterns'[p].channelId)) = 1 ]_vars

=============================================================================
